---- MODULE Spec2Model ----
(***************************************************************************)
(* Model of the TAP <-> DPI mailbox bridge of sw/eth_dpi.c: the start-up   *)
(* of eth_dpi_main (open, TUNSETIFF, O_NONBLOCK) and its main loop, which  *)
(* each iteration delays, polls the TAP descriptor with select, and moves  *)
(* at most one frame TAP -> DUT and at most one frame DUT -> TAP through   *)
(* the single global buffer.                                               *)
(*                                                                         *)
(* Byte strings (frames, the buffer, the bytes pushed or written) are kept *)
(* in run form: a sequence of runs [who, k, lo, hi], each standing for the *)
(* bytes at offsets lo..hi of the k-th frame produced by `who` ("host",    *)
(* "dut") or of the initial contents of the buffer ("bss").  Adjacent runs *)
(* that continue each other are merged, so two byte strings hold the same  *)
(* bytes in the same order exactly when their run forms are equal.  The    *)
(* same form with who = "idx" holds sequences of integers lo, lo+1, .., hi *)
(* (the indexes a loop passes to its calls).                               *)
(***************************************************************************)
EXTENDS Integers, Sequences, FiniteSets, TLC

\* ---------------------------------------------------------------- constants
MTU_SIZE == 1500

\* errno values the model lets select fail with
EINTR == 4
EBADF == 9
EAGAIN == 11

\* descriptor returned by a successful open
TapFd == 3

\* argument of host_delay
DelayClk == 1000

\* width of the index parameter of host_rx_pkt_get_data (uint16_t)
IndexBits == 16

\* ------------------------------------------------------------------- bounds
\* frames the host network stack hands to the TAP device during a run
MaxHostFrames == 2
\* frames the DUT queues in the mailbox during a run
MaxPeerFrames == 2

\* --------------------------------------------------------------- run forms
Min(a, b) == IF a < b THEN a ELSE b

Pow2(n) == 2 ^ n

Run(who, k, lo, hi) == [who |-> who, k |-> k, lo |-> lo, hi |-> hi]

\* offsets lo..hi of source (who, k); empty when lo > hi
Range(who, k, lo, hi) == IF lo > hi THEN <<>> ELSE <<Run(who, k, lo, hi)>>

\* number of elements of a run form
RECURSIVE BLen(_)
BLen(s) == IF s = <<>> THEN 0 ELSE (s[1].hi - s[1].lo + 1) + BLen(Tail(s))

\* concatenation, merging the runs that meet when one continues the other
Cat(a, b) ==
    IF a = <<>> THEN b
    ELSE IF b = <<>> THEN a
    ELSE LET x == a[Len(a)]
             y == b[1]
         IN  IF x.who = y.who /\ x.k = y.k /\ x.hi + 1 = y.lo
             THEN SubSeq(a, 1, Len(a) - 1) \o <<Run(x.who, x.k, x.lo, y.hi)>> \o Tail(b)
             ELSE a \o b

\* the first n elements
RECURSIVE Take(_, _)
Take(s, n) ==
    IF n <= 0 \/ s = <<>> THEN <<>>
    ELSE LET r == s[1]
             m == r.hi - r.lo + 1
         IN  IF n >= m THEN <<r>> \o Take(Tail(s), n - m)
             ELSE <<Run(r.who, r.k, r.lo, r.lo + n - 1)>>

\* all but the first n elements
RECURSIVE Drop(_, _)
Drop(s, n) ==
    IF n <= 0 \/ s = <<>> THEN s
    ELSE LET r == s[1]
             m == r.hi - r.lo + 1
         IN  IF n >= m THEN Drop(Tail(s), n - m)
             ELSE <<Run(r.who, r.k, r.lo + n, r.hi)>> \o Tail(s)

\* the integers 0 .. n-1 in ascending order
Upto(n) == Range("idx", 0, 0, n - 1)

\* -------------------------------------------------------------- environment
\* lengths of the frames the environment produces; MTU_SIZE + 1 is a frame
\* larger than the buffer
HostLens == {0, 1, MTU_SIZE, MTU_SIZE + 1}
PeerLens == {0, 1, MTU_SIZE, MTU_SIZE + 1}

\* the k-th frame of `who`, n bytes long
Frame(who, k, n) == Range(who, k, 0, n - 1)

\* one entry of the per-iteration call log: the call; n, its scalar argument
\* (for read, pull and valid its result, for select its errno or 0, for a
\* loop of calls their number); for a loop the buffer indexes it touches,
\* in order (at), and the arguments it passes, in order (arg)
Call(op, n) == [op |-> op, n |-> n, at |-> <<>>, arg |-> <<>>]
Loop(op, n, at, arg) == [op |-> op, n |-> n, at |-> at, arg |-> arg]

VARIABLES
    pc,         \* position of eth_dpi_main
    tap_fd,     \* the local tap_fd
    fd_state,   \* "none", "open" or "closed": what the program did to the descriptor
    nonblock,   \* O_NONBLOCK set on the descriptor
    ret,        \* value returned by eth_dpi_main or passed to exit
    site,       \* the failing operation that ended the bridge
    rd_set,     \* FD_ISSET(tap_fd, &rd_set) after select
    timeout,    \* the struct timeval handed to select
    buffer,     \* the global buffer[MTU_SIZE]
    oob,        \* memory behind buffer, as clobbered by stores past its end
    tapIn,      \* frames queued in the TAP device for reading
    tapOut,     \* frames the TAP device accepted from write
    tx_queue,   \* bytes pushed to the DUT since the last transfer init
    peerOut,    \* frames handed to the DUT by transfer init
    rx_mbox,    \* mailbox of frames from the DUT
    rx_pkt,     \* the frame last pulled from the mailbox
    calls,      \* calls made so far in the current iteration
    hostSent,   \* every frame the host stack queued, in order
    peerSent    \* every frame the DUT queued, in order

vars == <<pc, tap_fd, fd_state, nonblock, ret, site, rd_set, timeout, buffer,
          oob, tapIn, tapOut, tx_queue, peerOut, rx_mbox, rx_pkt, calls,
          hostSent, peerSent>>

\* the local timeout before the loop body has assigned it
NoTimeout == [tv_sec |-> -1, tv_usec |-> -1]

env == <<tapIn, rx_mbox, hostSent, peerSent>>
mbox == <<tx_queue, peerOut, rx_mbox, rx_pkt>>
mem == <<buffer, oob>>

Init ==
    /\ pc = "open"
    /\ tap_fd = -1
    /\ fd_state = "none"
    /\ nonblock = FALSE
    /\ ret = 0
    /\ site = "none"
    /\ rd_set = FALSE
    /\ timeout = NoTimeout
    /\ buffer = Range("bss", 0, 0, MTU_SIZE - 1)
    /\ oob = <<>>
    /\ tapIn = <<>>
    /\ tapOut = <<>>
    /\ tx_queue = <<>>
    /\ peerOut = <<>>
    /\ rx_mbox = <<>>
    /\ rx_pkt = <<>>
    /\ calls = <<>>
    /\ hostSent = <<>>
    /\ peerSent = <<>>

\* ------------------------------------------------------- return/exit codes
RetOpenFail == -1
RetIoctlFail == -2
\* the select failure path returning the TUNSETIFF code
RetSelectFail_dup == RetIoctlFail
RetSelectFail == -5
ExitReadFail == 1
ExitWriteFail == 1
\* status of a process killed by a stray store (128 + SIGSEGV)
ExitSegv == 139

\* ------------------------------------------------------------ host transport
\* fd_read without its check of the result
fd_read_unchecked(nread) == FALSE

\* fd_read: a negative result of read is fatal
fd_read_fatal(nread) == nread < 0

\* fd_write: a negative result of write is fatal
fd_write_fatal(nwrite) == nwrite < 0

\* what read(fd, buf, n) can return for the TAP queue q: -1, or the length of
\* the head frame cut to n (the rest of a longer frame is dropped)
ReadReturns(q, n) == {-1} \cup (IF q = <<>> THEN {} ELSE {Min(BLen(Head(q)), n)})

\* what write(fd, buf, n) can return: -1, n, or a short count
WriteReturns(n) == {-1, n} \cup (IF n > 0 THEN {n - 1} ELSE {})

\* a retry list grown by one errno
SelectRetry_ebadf(errsv) == errsv = EINTR \/ errsv = EAGAIN \/ errsv = EBADF

\* a retry list that lacks EINTR
SelectRetry_noeintr(errsv) == errsv = EAGAIN

\* the errno values after which the loop polls again
SelectRetry(errsv) == errsv = EINTR \/ errsv = EAGAIN

SelectErrnos == {EINTR, EAGAIN, EBADF}

\* `if (nbytes >= 0)`
Forwarded_all(nbytes) == TRUE

Forwarded_ge0(nbytes) == nbytes >= 0

\* `if (nbytes)`: the frame is forwarded when the read count is non-zero
Forwarded(nbytes) == nbytes # 0

\* `if (npkt > 1)`
HasPacket_gt1(npkt) == npkt > 1

\* `if (npkt > 0)`: the mailbox holds a frame from the DUT
HasPacket(npkt) == npkt > 0

StepAfter_drain(step) ==
    CASE step = "select" -> "outbound"
      [] step = "outbound" -> "inbound"
      [] step = "inbound" -> "inbound"

StepAfter_swapped(step) ==
    CASE step = "select" -> "inbound"
      [] step = "inbound" -> "outbound"
      [] step = "outbound" -> "delay"

\* the order of the statements of the loop body after a successful select:
\* the outbound `if`, the inbound query and `if`, the end of the body
StepAfter(step) ==
    CASE step = "select" -> "outbound"
      [] step = "outbound" -> "inbound"
      [] step = "inbound" -> "delay"

Timeout_1s == [tv_sec |-> 1, tv_usec |-> 0]

\* timeout.tv_sec = 0; timeout.tv_usec = 0: select only checks, it never waits
Timeout == [tv_sec |-> 0, tv_usec |-> 0]

ReadSize_over == MTU_SIZE + 1

\* the count handed to fd_read
ReadSize == MTU_SIZE

FD_ISSET_always(fd, set) == TRUE

\* rd_set is built from tap_fd alone and is kept as the flag "tap_fd is in it"
FD_ISSET(fd, set) == set

Continue_fallthrough == "outbound"

\* `continue` in the while (1) body: control goes to the top of the loop
Continue == "delay"

\* the inbound `if` follows the outbound `if`, it is not its else: whether
\* the descriptor was readable plays no part in it
InboundDue_else(readable, npkt) == ~readable /\ HasPacket(npkt)

InboundDue(readable, npkt) == HasPacket(npkt)

\* memory at buffer[0 ..] after storing the bytes `data` from buffer[0] on:
\* the part that fits replaces the head of the buffer
StoreBuf(buf, data) == Cat(Take(data, MTU_SIZE), Drop(buf, BLen(data)))

\* the bytes such a store puts behind the end of the buffer
StoreOob(old, data) == IF BLen(data) > MTU_SIZE THEN Drop(data, MTU_SIZE) ELSE old

\* ---------------------------------------------------------------- mailbox
\* the buffer indexes the outbound for-loop reads: 0 .. nbytes-1
PushIndexes(nbytes) == Upto(nbytes)

\* a push loop that stops one byte early: `i < nbytes - 1`
PushLoop_short(q, buf, nbytes) == Cat(q, Take(buf, nbytes - 1))

\* host_tx_data_push applied to buf[0], .., buf[nbytes-1], in that order
PushLoop(q, buf, nbytes) == Cat(q, Take(buf, nbytes))

\* the buffer indexes the inbound for-loop writes: 0 .. pkt_len-1
CopyIndexes(pkt_len) == Upto(pkt_len)

\* the index host_rx_pkt_get_data receives for each loop counter 0 .. n-1:
\* the counter cut to IndexBits bits
RECURSIVE Index16(_)
Index16(n) ==
    IF n <= Pow2(IndexBits) THEN Upto(n)
    ELSE Upto(Pow2(IndexBits)) \o Index16(n - Pow2(IndexBits))

\* host_rx_pkt_get_data for the index sequence idx: byte `index` of the
\* pulled frame for each, in order
RECURSIVE GetData(_, _)
GetData(pkt, idx) ==
    IF idx = <<>> THEN <<>>
    ELSE Cat(Take(Drop(pkt, idx[1].lo), idx[1].hi - idx[1].lo + 1),
             GetData(pkt, Tail(idx)))

\* the bytes the inbound for-loop stores at buffer[0 .. pkt_len-1]
CopyLoop(pkt, pkt_len) == GetData(pkt, Index16(pkt_len))

\* ------------------------------------------------------------ termination
\* the failing operations that end the bridge
FatalSites == {"open", "ioctl", "select", "read", "write"}

\* the value each of them returns from eth_dpi_main or passes to exit
FatalCode(s) ==
    CASE s = "open" -> RetOpenFail
      [] s = "ioctl" -> RetIoctlFail
      [] s = "select" -> RetSelectFail
      [] s = "read" -> ExitReadFail
      [] s = "write" -> ExitWriteFail

\* fd_read and fd_write end the process with exit, the others return
CallsExit(s) == s \in {"read", "write"}

\* the select failure path without its close
ClosesHandle_ioctl(s) == s \in {"ioctl"}

\* the failures after which the code calls close(tap_fd) before it stops
ClosesHandle(s) == s \in {"ioctl", "select"}

\* the bridge stops at failure site s
Fail(s) ==
    /\ pc' = IF CallsExit(s) THEN "exited" ELSE "returned"
    /\ ret' = FatalCode(s)
    /\ site' = s
    /\ fd_state' = IF ClosesHandle(s) THEN "closed" ELSE fd_state

Terminated == pc \in {"returned", "exited", "crashed"}

\* ------------------------------------------------------------------ start-up
\* open("/dev/net/tun", O_RDWR)
OpenTap ==
    /\ pc = "open"
    /\ \E fd \in {-1, TapFd} :
          /\ tap_fd' = fd
          /\ IF fd < 0
             THEN Fail("open")
             ELSE pc' = "ioctl" /\ fd_state' = "open" /\ UNCHANGED <<ret, site>>
    /\ UNCHANGED <<timeout, nonblock, rd_set, mem, env, tx_queue, peerOut, rx_pkt, tapOut, calls>>

\* ioctl(tap_fd, TUNSETIFF, &ifr)
SetIff ==
    /\ pc = "ioctl"
    /\ \E err \in {-1, 0} :
          IF err < 0
          THEN Fail("ioctl")
          ELSE pc' = "fcntl" /\ UNCHANGED <<fd_state, ret, site>>
    /\ UNCHANGED <<timeout, tap_fd, nonblock, rd_set, mem, env, tx_queue, peerOut, rx_pkt,
                   tapOut, calls>>

\* fcntl(tap_fd, F_SETFL, flags | O_NONBLOCK)
SetNonblock ==
    /\ pc = "fcntl"
    /\ nonblock' = TRUE
    /\ pc' = "delay"
    /\ UNCHANGED <<timeout, tap_fd, fd_state, ret, site, rd_set, mem, env, tx_queue, peerOut,
                   rx_pkt, tapOut, calls>>

\* ----------------------------------------------------------------- main loop
\* top of an iteration: rd_set is rebuilt and host_delay is called
LoopTop ==
    /\ pc = "delay"
    /\ calls' = <<Call("delay", DelayClk)>>
    /\ rd_set' = FALSE
    /\ timeout' = Timeout
    /\ pc' = "select"
    /\ UNCHANGED <<tap_fd, fd_state, nonblock, ret, site, mem, tx_queue, rx_pkt>>

\* host_delay lets the simulation run; while it runs the host stack and the
\* DUT may each queue a frame, of one of the given lengths
Arrivals(hostLens, peerLens) ==
    /\ \E hs \in {<<>>} \cup {<<Frame("host", Len(hostSent) + 1, n)>> : n \in hostLens},
          ps \in {<<>>} \cup {<<Frame("dut", Len(peerSent) + 1, n)>> : n \in peerLens} :
          /\ Len(hostSent) + Len(hs) <= MaxHostFrames
          /\ Len(peerSent) + Len(ps) <= MaxPeerFrames
          /\ tapIn' = tapIn \o hs
          /\ hostSent' = hostSent \o hs
          /\ rx_mbox' = rx_mbox \o ps
          /\ peerSent' = peerSent \o ps
    /\ UNCHANGED <<tapOut, peerOut>>

HostDelay == LoopTop /\ Arrivals(HostLens, PeerLens)

\* select returns a negative value: poll again or stop
SelectFail ==
    /\ pc = "select"
    /\ \E errsv \in SelectErrnos :
          /\ calls' = Append(calls, Call("select", errsv))
          /\ IF SelectRetry(errsv)
             THEN pc' = Continue /\ UNCHANGED <<fd_state, ret, site>>
             ELSE Fail("select")
    /\ UNCHANGED <<timeout, tap_fd, nonblock, rd_set, mem, env, tx_queue, peerOut, rx_pkt, tapOut>>

\* select returns: the descriptor is in rd_set when the TAP queue holds a frame
SelectOk ==
    /\ pc = "select"
    /\ rd_set' = (tapIn # <<>>)
    /\ calls' = Append(calls, Call("select", 0))
    /\ pc' = StepAfter("select")
    /\ UNCHANGED <<timeout, tap_fd, fd_state, nonblock, ret, site, mem, env, tx_queue, peerOut,
                   rx_pkt, tapOut>>

\* select with a zero timeout and the handling of its failure
SelectStep == SelectFail \/ SelectOk

\* TAP -> DUT: read one frame into buffer, push its bytes, start the transfer
OutboundStep ==
    /\ pc = "outbound"
    /\ IF FD_ISSET(tap_fd, rd_set)
       THEN \E nread \in ReadReturns(tapIn, ReadSize) :
               IF fd_read_fatal(nread)
               THEN /\ Fail("read")
                    /\ calls' = Append(calls, Call("read", nread))
                    /\ UNCHANGED <<buffer, tapIn, tx_queue, peerOut>>
               ELSE LET nbytes == nread
                        got == IF nread >= 0 THEN Take(Head(tapIn), nread) ELSE <<>>
                        newbuf == StoreBuf(buffer, got)
                    IN  /\ buffer' = newbuf
                        /\ tapIn' = IF nread >= 0 THEN Tail(tapIn) ELSE tapIn
                        /\ IF Forwarded(nbytes)
                           THEN /\ tx_queue' = <<>>
                                /\ peerOut' = Append(peerOut, PushLoop(tx_queue, newbuf, nbytes))
                                /\ calls' = calls \o
                                     <<Call("read", nread),
                                       Loop("push", BLen(PushIndexes(nbytes)),
                                            PushIndexes(nbytes),
                                            PushLoop(<<>>, newbuf, nbytes)),
                                       Call("commit", 0)>>
                           ELSE /\ UNCHANGED <<tx_queue, peerOut>>
                                /\ calls' = Append(calls, Call("read", nread))
                        /\ pc' = StepAfter("outbound")
                        /\ UNCHANGED <<ret, site, fd_state>>
       ELSE /\ pc' = StepAfter("outbound")
            /\ UNCHANGED <<ret, site, fd_state, buffer, tapIn, tx_queue, peerOut, calls>>
    /\ UNCHANGED <<timeout, tap_fd, nonblock, rd_set, oob, rx_mbox,
                   rx_pkt, hostSent, peerSent, tapOut>>

\* DUT -> TAP: pull one frame, copy it into buffer byte by byte, write it
InboundStep ==
    /\ pc = "inbound"
    /\ LET npkt == Len(rx_mbox) IN
       IF InboundDue(rd_set, npkt)
       THEN LET pkt == Head(rx_mbox)
                pkt_len == BLen(pkt)
                copied == CopyLoop(pkt, pkt_len)
                newbuf == StoreBuf(buffer, copied)
                newoob == StoreOob(oob, copied)
                upto == <<Call("valid", npkt), Call("pull", pkt_len),
                          Loop("get", BLen(CopyIndexes(pkt_len)),
                               CopyIndexes(pkt_len), Index16(pkt_len))>>
            IN  /\ rx_mbox' = Tail(rx_mbox)
                /\ rx_pkt' = pkt
                /\ buffer' = newbuf
                /\ oob' = newoob
                /\ \/ \* a store behind the buffer hits an unmapped or
                      \* vital location and the process dies
                      /\ pkt_len > MTU_SIZE
                      /\ pc' = "crashed" /\ ret' = ExitSegv /\ site' = "copy"
                      /\ calls' = calls \o upto
                      /\ UNCHANGED <<tapOut, fd_state>>
                   \/ \E nwrite \in WriteReturns(pkt_len) :
                         /\ calls' = calls \o upto \o <<Call("write", pkt_len)>>
                         /\ IF fd_write_fatal(nwrite)
                            THEN Fail("write") /\ UNCHANGED tapOut
                            ELSE /\ tapOut' = Append(tapOut, Take(Cat(newbuf, newoob), nwrite))
                                 /\ pc' = StepAfter("inbound")
                                 /\ UNCHANGED <<ret, site, fd_state>>
       ELSE /\ calls' = Append(calls, Call("valid", npkt))
            /\ pc' = StepAfter("inbound")
            /\ UNCHANGED <<ret, site, fd_state, rx_mbox, rx_pkt, buffer, oob, tapOut>>
    /\ UNCHANGED <<timeout, tap_fd, nonblock, rd_set, tapIn, tx_queue,
                   peerOut, hostSent, peerSent>>

Next ==
    \/ OpenTap
    \/ SetIff
    \/ SetNonblock
    \/ HostDelay
    \/ SelectStep
    \/ OutboundStep
    \/ InboundStep

Spec == Init /\ [][Next]_vars

\* a frame length beyond the range of a 16-bit index
JumboLen == Pow2(IndexBits) + 1

\* host_delay with a DUT that may queue such a frame
JumboDelay == LoopTop /\ Arrivals({1}, {1, JumboLen})

JumboNext ==
    \/ OpenTap
    \/ SetIff
    \/ SetNonblock
    \/ JumboDelay
    \/ SelectStep
    \/ OutboundStep
    \/ InboundStep

JumboSpec == Init /\ [][JumboNext]_vars

\* length of the frames of a saturated link
BusyLen == 1

\* host_delay under lasting load: each side may queue a frame at every call
\* for as long as its queue has room, the peer and the host stack having
\* consumed what was delivered to them (the records of delivered traffic
\* restart from what is still pending)
BusyDelay ==
    /\ LoopTop
    /\ \E hs \in {<<>>, <<Frame("host", Len(tapIn) + 1, BusyLen)>>},
          ps \in {<<>>, <<Frame("dut", Len(rx_mbox) + 1, BusyLen)>>} :
          /\ Len(tapIn) + Len(hs) <= MaxHostFrames
          /\ Len(rx_mbox) + Len(ps) <= MaxPeerFrames
          /\ tapIn' = tapIn \o hs
          /\ hostSent' = tapIn \o hs
          /\ rx_mbox' = rx_mbox \o ps
          /\ peerSent' = rx_mbox \o ps
    /\ tapOut' = <<>>
    /\ peerOut' = <<>>

LiveNext ==
    \/ OpenTap
    \/ SetIff
    \/ SetNonblock
    \/ BusyDelay
    \/ SelectFail
    \/ SelectOk
    \/ OutboundStep
    \/ InboundStep

\* eth_dpi_main is one thread that runs whenever it can take a step
RunSpec == Init /\ [][LiveNext]_vars /\ WF_vars(LiveNext)

\* eth_dpi_main is one thread that runs whenever it can take a step, and a
\* select that is polled again and again is not interrupted every time
LiveSpec == Init /\ [][LiveNext]_vars /\ WF_vars(LiveNext) /\ SF_vars(SelectOk)

TypeOK ==
    /\ pc \in {"open", "ioctl", "fcntl", "delay", "select", "outbound", "inbound",
               "returned", "exited", "crashed"}
    /\ tap_fd \in {-1, TapFd}
    /\ fd_state \in {"none", "open", "closed"}
    /\ timeout \in {NoTimeout, Timeout}
    /\ BLen(buffer) = MTU_SIZE

\* =================================================================== claims
\* the entries of the current iteration's call log that are calls of op
Ops(op) == SelectSeq(calls, LAMBDA c : c.op = op)

Made(op) == Ops(op) # <<>>

First(op) == Ops(op)[1]

Count(op) == Len(Ops(op))

Last(q) == q[Len(q)]

NonEmpty(f) == f # <<>>

FitsMtu(f) == BLen(f) <= MTU_SIZE

\* the frames already taken from the TAP queue and from the mailbox
HostTaken == SubSeq(hostSent, 1, Len(hostSent) - Len(tapIn))
PeerTaken == SubSeq(peerSent, 1, Len(peerSent) - Len(rx_mbox))

\* C1: no partial commits.  Whenever the loop has issued a transfer init, it
\* was the only one of the iteration, the pushes before it are as many as
\* the read of the same iteration returned, they are buffer[0 .. n-1] in
\* ascending index order, i.e. the first n bytes of the frame just read;
\* no committed frame is empty and no pushed byte is left uncommitted.
C1_NoPartialCommit ==
    /\ tx_queue = <<>>
    /\ \A j \in 1..Len(peerOut) : NonEmpty(peerOut[j])
    /\ Made("commit") =>
          /\ Count("commit") = 1 /\ Count("push") = 1 /\ Count("read") = 1
          /\ First("push").n = First("read").n
          /\ First("push").at = Upto(First("read").n)
          /\ Last(peerOut) = First("push").arg
          /\ BLen(Last(peerOut)) = First("read").n
          /\ Last(peerOut) = Take(Last(HostTaken), First("read").n)
          /\ (pc = "inbound" => Last(peerOut) = Take(buffer, First("read").n))

\* a full buffer's worth of bytes was pushed and committed after a shorter
\* frame had been committed
C1_Witness ==
    /\ pc = "inbound" /\ Made("commit")
    /\ First("read").n = MTU_SIZE
    /\ Len(peerOut) = 2 /\ BLen(peerOut[1]) = 1

\* C2 (as claimed): every frame written to the TAP device is 0..MTU_SIZE
\* bytes long, every buffer index stored to while copying a pulled frame is
\* below MTU_SIZE, and a pulled frame longer than MTU_SIZE is neither copied
\* nor written.
C2_InboundFrameSize ==
    /\ \A j \in 1..Len(tapOut) : BLen(tapOut[j]) <= MTU_SIZE
    /\ Made("get") => \A j \in 1..Len(First("get").at) : First("get").at[j].hi < MTU_SIZE
    /\ (Made("pull") /\ First("pull").n > MTU_SIZE) =>
          (First("get").n = 0 /\ ~Made("write"))

\* C3 (as claimed): after a read that returned a negative count the loop is
\* still running and nothing was pushed or committed.
C3_NegativeReadContinues ==
    (Made("read") /\ First("read").n < 0) =>
        (~Terminated /\ ~Made("push") /\ ~Made("commit"))

\* C3 (amended): a read that returned a negative count is fatal: the process
\* has ended through exit with status ExitReadFail, nothing was pushed or
\* committed for that read and the inbound check was not reached.
C3_NegativeReadFatal ==
    (Made("read") /\ First("read").n < 0) =>
        /\ pc = "exited" /\ ret = ExitReadFail /\ site = "read"
        /\ ~Made("push") /\ ~Made("commit") /\ ~Made("valid")
        /\ tx_queue = <<>>
        /\ Len(peerOut) = Len(SelectSeq(HostTaken, NonEmpty))

C3_Witness ==
    /\ Made("read") /\ First("read").n < 0
    /\ pc = "exited"
    /\ Len(peerOut) = 1

\* C4: fair interleaving.  In an iteration in which the read returned a
\* positive count and the mailbox reported a positive count, the loop has
\* made exactly one read, one transfer init and one pull and at most one
\* write; when the iteration has ended it has made exactly one write, and
\* over the whole run every frame taken from the TAP queue so far (but the
\* empty ones) was committed once and every frame taken from the mailbox was
\* written once.
C4_FairInterleaving ==
    (Made("read") /\ First("read").n > 0 /\ Made("valid") /\ First("valid").n > 0) =>
        /\ Count("read") = 1 /\ Count("commit") = 1
        /\ Count("pull") = 1 /\ Count("write") <= 1
        /\ Len(peerOut) = Len(SelectSeq(HostTaken, NonEmpty))
        /\ Last(peerOut) = Take(Last(HostTaken), MTU_SIZE)
        /\ rx_pkt = Last(PeerTaken)
        /\ pc = "delay" => (Count("write") = 1 /\ Len(tapOut) = Len(PeerTaken))

C4_Witness ==
    /\ pc = "delay" /\ Made("read") /\ First("read").n > 0
    /\ Made("valid") /\ First("valid").n > 0
    /\ Len(peerOut) = 2 /\ Len(tapOut) = 2

C6_InboundExact ==
    (pc = "delay" /\ Made("pull") /\ First("pull").n <= MTU_SIZE) =>
        /\ Count("get") = 1
        /\ First("get").n = First("pull").n
        /\ First("get").arg = Upto(First("pull").n)
        /\ First("get").at = Upto(First("pull").n)
        /\ Count("write") = 1 /\ First("write").n = First("pull").n
        /\ BLen(Last(tapOut)) = First("pull").n
        /\ Last(tapOut) = rx_pkt

\* C7 (as claimed): a select failure with any errno but EINTR has ended the
\* bridge with the descriptor closed and no call after the select.
C7_OnlyEintrRetried ==
    (Made("select") /\ First("select").n \notin {0, EINTR}) =>
        /\ pc = "returned" /\ site = "select" /\ fd_state = "closed"
        /\ calls = <<Call("delay", DelayClk), First("select")>>

\* C7 (amended): a select failure with any errno but EINTR and EAGAIN has
\* ended the bridge, with return value RetSelectFail, the descriptor closed
\* and no call after the select; after EINTR and after EAGAIN the loop is at
\* the top of the next iteration with the descriptor open.
C7_SelectFailureFatal ==
    (Made("select") /\ First("select").n # 0) =>
        /\ calls = <<Call("delay", DelayClk), First("select")>>
        /\ IF First("select").n \in {EINTR, EAGAIN}
           THEN pc = "delay" /\ fd_state = "open"
           ELSE /\ pc = "returned" /\ site = "select" /\ ret = RetSelectFail
                /\ fd_state = "closed"

C7_Witness ==
    /\ pc = "returned" /\ site = "select"
    /\ First("select").n = EBADF
    /\ tapIn # <<>> /\ rx_mbox # <<>>

\* C8: a select that fails with EINTR takes the loop back to the top of the
\* iteration and changes nothing else: buffer, memory behind it, both
\* mailbox queues, the TAP queues and the descriptor stay as they were, and
\* the select was the only call since the delay; from there the loop's next
\* step is the delay and poll of a new iteration, again without touching
\* the buffer, the outbound mailbox, the pulled frame or the descriptor.
C8_EintrRetry ==
    [][/\ (pc = "select" /\ Last(calls') = Call("select", EINTR)) =>
            /\ pc' = "delay"
            /\ calls' = <<Call("delay", DelayClk), Call("select", EINTR)>>
            /\ UNCHANGED <<buffer, oob, tapIn, tapOut, tx_queue, peerOut, rx_mbox,
                           rx_pkt, tap_fd, fd_state, nonblock, ret, site>>
       /\ (pc = "delay" /\ Made("select") /\ First("select").n = EINTR) =>
            /\ pc' = "select"
            /\ calls' = <<Call("delay", DelayClk)>>
            /\ UNCHANGED <<buffer, oob, tapOut, tx_queue, peerOut, rx_pkt,
                           tap_fd, fd_state, nonblock, ret, site>>
      ]_vars

C8_Witness ==
    /\ pc = "delay" /\ Made("select") /\ First("select").n = EINTR
    /\ tapIn # <<>> /\ rx_mbox # <<>>
    /\ tapOut # <<>>

C10_ClosedOnEveryExit ==
    /\ (Terminated /\ site \in {"ioctl", "select", "read", "write"}) =>
          fd_state = "closed"
    /\ ~Terminated => fd_state # "closed"

\* C10 (amended): after a TUNSETIFF or select failure the descriptor has been
\* closed before eth_dpi_main returns; after a read or write failure the
\* process has ended through exit without the code closing the descriptor;
\* the descriptor is not closed while the bridge runs.
C10_ClosedWhereCoded ==
    /\ (Terminated /\ site \in {"ioctl", "select"}) =>
          (fd_state = "closed" /\ pc = "returned")
    /\ (Terminated /\ site \in {"read", "write"}) =>
          (fd_state = "open" /\ pc = "exited")
    /\ ~Terminated => fd_state # "closed"

C10_Witness ==
    /\ pc = "exited" /\ site = "read" /\ fd_state = "open"
    /\ tapOut # <<>>

\* ---------------------------------------------------------------------- C11
\* C11: neither direction starves the other.  While the loop runs, a frame
\* queued in the peer mailbox is pulled and written to the TAP device in a
\* later step even when the TAP device is readable in every iteration, and a
\* frame readable on the TAP device is committed to the peer even when the
\* mailbox is never empty; the loop may instead stop on a fatal error.
C11_NoStarvation ==
    /\ (rx_mbox # <<>>) ~> (Terminated \/ (Made("pull") /\ Made("write")))
    /\ (tapIn # <<>>) ~> (Terminated \/ Made("commit"))

\* both directions were served in one iteration and both are still backlogged
C11_Witness ==
    /\ pc = "delay"
    /\ Made("commit") /\ Made("pull") /\ Made("write")
    /\ tapIn # <<>> /\ rx_mbox # <<>>

\* ---------------------------------------------------------------------- C12
\* position in the call log of the first call of op (0: not called)
Pos(op) ==
    IF Made(op)
    THEN CHOOSE i \in 1..Len(calls) :
            calls[i].op = op /\ \A j \in 1..(i - 1) : calls[j].op # op
    ELSE 0

\* C12 (as stated): every iteration that ends without stopping the bridge has
\* made the inbound-count query host_rx_pkt_valid, a retried poll included.
C12_ValidEveryIteration ==
    (pc = "delay" /\ Made("select")) => Made("valid")

\* C12 (amended): an iteration that ends without stopping the bridge has made
\* the inbound-count query exactly once when its select succeeded, after the
\* whole outbound step, whether the descriptor was not readable, readable with
\* data or readable with a zero-length read; it has not made it when select
\* was retried.
C12_ValidAfterPoll ==
    /\ (pc = "delay" /\ Made("select")) =>
          Count("valid") = (IF First("select").n = 0 THEN 1 ELSE 0)
    /\ Made("valid") =>
          /\ First("select").n = 0
          /\ Pos("valid") > Pos("select")
          /\ Pos("valid") > Pos("read")
          /\ Pos("valid") > Pos("push")
          /\ Pos("valid") > Pos("commit")

\* the query was made after a zero-length read
C12_Witness ==
    /\ pc = "delay"
    /\ Made("read") /\ First("read").n = 0
    /\ Made("valid")

\* ---------------------------------------------------------------------- C13
\* C13: when the descriptor is readable and the read returns 0 the frame is
\* discarded: no byte is pushed and no transfer is initiated, the peer has
\* received nothing for it, and the same iteration, with no further delay and
\* no new select, goes on to the inbound-count query and serves a queued
\* inbound frame.
C13_ZeroReadDiscarded ==
    (Made("read") /\ First("read").n = 0) =>
        /\ ~Made("push") /\ ~Made("commit")
        /\ tx_queue = <<>>
        /\ Len(peerOut) = Len(SelectSeq(HostTaken, NonEmpty))
        /\ SubSeq(calls, 1, 3) = <<Call("delay", DelayClk), Call("select", 0), Call("read", 0)>>
        /\ pc \in {"inbound", "delay", "exited", "crashed"}
        /\ pc # "inbound" =>
              /\ Len(calls) > 3 /\ calls[4].op = "valid"
              /\ Count("delay") = 1 /\ Count("select") = 1
              /\ HasPacket(calls[4].n) => (Len(calls) > 4 /\ calls[5].op = "pull")

\* a zero-length read was followed by the delivery of an inbound frame
C13_Witness ==
    /\ pc = "delay"
    /\ Made("read") /\ First("read").n = 0
    /\ Made("write")
    /\ Len(tapOut) = 1

\* ---------------------------------------------------------------------- C14
\* C14: polling again is idempotent.  Whenever select reports the descriptor
\* not readable, the outbound step attempts no read (none is logged), leaves
\* the frame buffer and the TAP queue as they are and pushes and commits
\* nothing; this holds at every such step, so for any number of consecutive
\* iterations.
C14_IdempotentRepoll ==
    [][(pc = "outbound" /\ ~rd_set) =>
          /\ pc' = "inbound"
          /\ UNCHANGED <<calls, buffer, oob, tapIn, tx_queue, peerOut, tapOut, rx_mbox, rx_pkt,
                         tap_fd, fd_state, nonblock, ret, site, rd_set, hostSent, peerSent>>
      ]_vars

\* a not-readable iteration has passed its outbound step with the buffer still
\* holding a frame of an earlier iteration
C14_Witness ==
    /\ pc = "inbound"
    /\ ~rd_set
    /\ calls = <<Call("delay", DelayClk), Call("select", 0)>>
    /\ buffer # Range("bss", 0, 0, MTU_SIZE - 1)
    /\ peerOut # <<>>

\* ---------------------------------------------------------------------- C15
\* C15: every frame committed to the peer consists of at least 1 and at most
\* MTU_SIZE pushed bytes: each transfer init follows a push loop of 1 to
\* MTU_SIZE calls, and every frame the peer has received has such a length.
C15_OutboundFrameSize ==
    /\ \A i \in 1..Len(peerOut) : BLen(peerOut[i]) >= 1 /\ BLen(peerOut[i]) <= MTU_SIZE
    /\ Made("commit") =>
          /\ Count("push") = 1
          /\ First("push").n >= 1 /\ First("push").n <= MTU_SIZE
          /\ BLen(First("push").arg) = First("push").n

\* a host frame longer than MTU_SIZE was committed cut to MTU_SIZE bytes
C15_Witness ==
    /\ Made("commit")
    /\ BLen(Last(HostTaken)) > MTU_SIZE
    /\ BLen(Last(peerOut)) = MTU_SIZE

\* ---------------------------------------------------------------------- C16
\* place of a call in the order of the loop body
Rank(op) ==
    CASE op = "delay" -> 1 [] op = "select" -> 2 [] op = "read" -> 3
      [] op = "push" -> 4 [] op = "commit" -> 5 [] op = "valid" -> 6
      [] op = "pull" -> 7 [] op = "get" -> 8 [] op = "write" -> 9

\* C16: within one iteration the outbound step fully precedes the inbound
\* step.  The calls of an iteration are made in the order read, pushes,
\* commit, count query, pull, get-byte calls, write, each at most once, so no
\* push or commit follows the pull or a get-byte store, and no read follows
\* them before the next delay; the frame committed is the frame read, whatever
\* the inbound step then stores in the shared buffer, and what the TAP device
\* is given starts with bytes of the frame pulled.
C16_OutboundBeforeInbound ==
    /\ \A i, j \in 1..Len(calls) : i < j => Rank(calls[i].op) < Rank(calls[j].op)
    /\ (Made("commit") /\ Made("get")) => Last(peerOut) = Take(Last(HostTaken), MTU_SIZE)
    /\ (Made("write") /\ pc = "delay") =>
          Take(Last(tapOut), MTU_SIZE) = Take(Take(rx_pkt, MTU_SIZE), BLen(Last(tapOut)))

\* one iteration has read and committed a host frame and then pulled, copied
\* and written an inbound frame through the same buffer
C16_Witness ==
    /\ pc = "delay"
    /\ Made("push") /\ Made("commit") /\ Made("pull") /\ Made("write")
    /\ First("get").n > 0
    /\ Take(buffer, First("get").n) = rx_pkt

C18_CallProtocol ==
    /\ Count("pull") <= 1 /\ Count("get") <= 1
    /\ Made("pull") =>
          /\ Made("valid") /\ First("valid").n > 0
          /\ Pos("valid") < Pos("pull")
    /\ Made("get") =>
          /\ Made("pull") /\ Pos("pull") < Pos("get")
          /\ First("get").n = First("pull").n
          /\ First("get").arg = Upto(First("pull").n)

====
